---- MODULE Spec2Model ----
(***************************************************************************)
(* FONPR_Env (src/fonpr/agents/fonpr_env.py): a Gymnasium environment that *)
(* reads a throughput series from Prometheus, turns it into a fixed-size   *)
(* observation, and dispatches UPF sizing requests to an ActionHandler.    *)
(*                                                                         *)
(* Floating-point throughput values are modelled as exact rationals        *)
(* <<numerator, denominator>>; <<0, 0>> stands for NaN.  Timestamps are    *)
(* seconds since midnight of the day of the first sample, which is the     *)
(* origin pandas aligns resampling bins to.  Money is counted in units of  *)
(* 1e-11 dollar so that rxtx_value (3.33e-9 $/byte) is the integer 333.    *)
(***************************************************************************)
EXTENDS Integers, Sequences, FiniteSets

\* ---------------------------------------------------------------- bounds
MaxWindow == 1        \* window (minutes) is drawn from 1..MaxWindow
MaxSampleRate == 3    \* sample_rate (per minute) is drawn from 2..MaxSampleRate
MaxPoints == 2        \* a metrics response holds 1..MaxPoints raw samples
MaxTick == 6          \* raw timestamps are 0, 10, .., 10 * MaxTick seconds
MaxValue == 1         \* a raw throughput value is in 0..MaxValue
MaxPrice == 2         \* ec2_cost_calculator answers a price in 1..MaxPrice
MaxSteps == 6         \* step is called while step_counter < MaxSteps

\* ------------------------------------------------------- program constants
rxtx_value == 333     \* 3.33e-9 dollars per byte, in units of 1e-11 dollar
TruncatePeriod == 6   \* truncated is True on every 6th step
ActionCount == 3      \* spaces.Discrete(3)
SecondsPerMinute == 60

VARIABLES
    window,        \* self.window
    sample_rate,   \* self.sample_rate
    samples,       \* self.samples
    step_counter,  \* self.step_counter
    action,        \* the argument of the last call of step
    issued,        \* the scaling requests the last call handed to ActionHandler
    events,        \* what the call did so far, in the order it did it
    li_cost,       \* step's local li_cost, as last looked up
    si_cost,       \* step's local si_cost, as last looked up
    ret,           \* what the last call returned (or that it raised)
    pc             \* where the call in progress stands; "idle" between calls

vars == <<window, sample_rate, samples, step_counter, action, issued, events,
          li_cost, si_cost, ret, pc>>

\* ------------------------------------------------------------- rationals
NaN == <<0, 0>>
Zero == <<0, 1>>

Abs(x) == IF x < 0 THEN -x ELSE x

RECURSIVE GCD(_, _)
GCD(a, b) == IF b = 0 THEN a ELSE GCD(b, a % b)

\* n/d in lowest terms, for d > 0
Rat(n, d) == LET g == GCD(Abs(n), d) IN <<n \div g, d \div g>>

IsNaN(x) == x[2] = 0

RAdd(x, y) == Rat(x[1] * y[2] + y[1] * x[2], x[2] * y[2])
RSub(x, y) == Rat(x[1] * y[2] - y[1] * x[2], x[2] * y[2])
RScale(x, n, d) == Rat(x[1] * n, x[2] * d)
RNeg(x) == x[1] < 0

RECURSIVE RSum(_)
RSum(s) == IF s = <<>> THEN Zero ELSE RAdd(s[1], RSum(Tail(s)))

\* ------------------------------------------------------ metrics responses
TimeGrid == {10 * k : k \in 0..MaxTick}
RawValues == 0..MaxValue

\* prom_response[0][0]['values']: [timestamp, value] pairs in time order.
\* Raw values are finite numbers; a response holds at least one sample.
Responses ==
    UNION {{r \in [1..n -> TimeGrid \X RawValues] :
               \A i \in 1..(n - 1) : r[i][1] < r[i + 1][1]} : n \in 1..MaxPoints}

\* ------------------------------------------------- _get_obs, step by step
\* A sequence built element by element, held as an explicit tuple
Array(f) == f \o <<>>

\* line 55-57: the frame, one row per sample, indexed by DateTime
DataFrame(values) ==
    Array([i \in 1..Len(values) |->
              [DateTime |-> values[i][1], Throughput |-> values[i][2]]])

\* line 59-60: astype(float), then subtract the value at the first timestamp
Normalize(df) ==
    Array([i \in 1..Len(df) |->
              [DateTime |-> df[i].DateTime,
               Throughput |-> Rat(df[i].Throughput - df[1].Throughput, 1)]])

\* DataFrame.interpolate(): linear in the row position between the nearest
\* valid neighbours; NaNs after the last valid row repeat it, NaNs before the
\* first valid row stay NaN.
InterpolateColumn(col) ==
    Array([k \in 1..Len(col) |->
        IF ~IsNaN(col[k]) THEN col[k]
        ELSE LET before == {i \in 1..(k - 1) : ~IsNaN(col[i])}
                 after == {j \in (k + 1)..Len(col) : ~IsNaN(col[j])}
             IN IF before = {} THEN NaN
                ELSE LET i == CHOOSE x \in before : \A y \in before : y <= x
                     IN IF after = {} THEN col[i]
                        ELSE LET j == CHOOSE x \in after : \A y \in after : x <= y
                             IN RAdd(col[i], RScale(RSub(col[j], col[i]), k - i, j - i))])

interpolate(df) ==
    LET col == InterpolateColumn(Array([i \in 1..Len(df) |-> df[i].Throughput]))
    IN Array([i \in 1..Len(df) |->
                 [DateTime |-> df[i].DateTime, Throughput |-> col[i]]])

\* line 62: the bin width in seconds, int(60 / sample_rate)
BinSeconds(sr) == SecondsPerMinute \div sr

\* line 62: resample(..).mean(): one row per bin from the bin of the first
\* row to the bin of the last row; an empty bin is NaN.
resample_mean(df, sr) ==
    LET w == BinSeconds(sr)
        first == df[1].DateTime \div w
        last == df[Len(df)].DateTime \div w
        InBin(b) == SelectSeq(df, LAMBDA row : row.DateTime \div w = b)
        Column(rows) == Array([i \in 1..Len(rows) |-> rows[i].Throughput])
    IN Array([k \in 1..(last - first + 1) |->
                 LET rows == InBin(first + k - 1)
                 IN [DateTime |-> (first + k - 1) * w,
                     Throughput |-> IF rows = <<>> THEN NaN
                                    ELSE RScale(RSum(Column(rows)), 1, Len(rows))]])

zeros(n) == Array([i \in 1..n |-> Zero])

\* line 68-69: np.insert(through_vals, 0, np.zeros(samples - len)).
\* np.zeros raises ValueError for a negative size.
Pad(through_vals, n) ==
    IF Len(through_vals) # n
    THEN IF n - Len(through_vals) < 0
         THEN [raised |-> TRUE, value |-> <<>>]
         ELSE [raised |-> FALSE, value |-> zeros(n - Len(through_vals)) \o through_vals]
    ELSE [raised |-> FALSE, value |-> through_vals]

\* line 91: reshape(n, 1): n rows of one column
reshape(through_vals) ==
    Array([i \in 1..Len(through_vals) |-> <<through_vals[i]>>])

\* lines 49-91.  The pod bookkeeping of lines 71-85 fills a local that is
\* never read and is left out.
_get_obs(values, sr, n) ==
    LET df == interpolate(resample_mean(interpolate(Normalize(DataFrame(values))), sr))
        through_vals == Array([i \in 1..Len(df) |-> df[i].Throughput])
        padded == Pad(through_vals, n)
    IN IF padded.raised THEN padded
       ELSE [raised |-> FALSE, value |-> reshape(padded.value)]

\* line 93-95
_get_info == "{}"

\* ------------------------------------------------------------------ step
action_space == 0..(ActionCount - 1)
Prices == 1..MaxPrice

\* Dispatch with the two sizings taken for each other
DispatchSwapped(a) ==
    IF a = 0 THEN <<>>
    ELSE IF a = 1 THEN <<[target_pod |-> "upf", values |-> "Small"]>>
    ELSE IF a = 2 THEN <<[target_pod |-> "upf", values |-> "Large"]>>
    ELSE <<>>

\* lines 110-118: the requests handed to ActionHandler and pushed with
\* fetch_update_push_upf_sizing()
Dispatch(a) ==
    IF a = 0 THEN <<>>
    ELSE IF a = 1 THEN <<[target_pod |-> "upf", values |-> "Large"]>>
    ELSE IF a = 2 THEN <<[target_pod |-> "upf", values |-> "Small"]>>
    ELSE <<>>

\* Reward taken from the oldest sample of the window alone
RewardOfFirstRow(observation, li, si) ==
    RScale(observation[1][1], rxtx_value, 1)

\* line 129: rxtx_value * np.sum(observation); the cost terms are commented out
Reward(observation, li, si) ==
    RScale(RSum(Array([i \in 1..Len(observation) |-> observation[i][1]])),
           rxtx_value, 1)

\* terminated = True
TerminatedTrue == TRUE

\* line 134
Terminated == FALSE

\* line 136, on the counter as already incremented
Truncated(counter) == counter % TruncatePeriod = 0

Pending(call) == [call |-> call, state |-> "pending"]
Raised(call) == [call |-> call, state |-> "raised"]

\* lines 20-47, for the constructor arguments window and sample_rate.
\* reset and step are blocking calls (remote queries, a sleep); pc follows
\* the one call in progress through its source lines, and ret, issued and
\* events belong to that call from its entry on.
Init ==
    /\ window \in 1..MaxWindow
    /\ sample_rate \in 2..MaxSampleRate
    /\ samples = window * sample_rate
    /\ step_counter = 0
    /\ action = 0
    /\ issued = <<>>
    /\ events = <<>>
    /\ li_cost = 0
    /\ si_cost = 0
    /\ ret = [call |-> "none", state |-> "none"]
    /\ pc = "idle"

\* line 97-99: reset is entered and seeds np_random
ResetCall ==
    /\ pc = "idle"
    /\ pc' = "reset_obs"
    /\ ret' = Pending("reset")
    /\ events' = <<>>
    /\ issued' = <<>>
    /\ action' = 0
    /\ li_cost' = 0
    /\ si_cost' = 0
    /\ UNCHANGED <<window, sample_rate, samples, step_counter>>

\* lines 101-104: the observation is fetched and returned
ResetObserve(values) ==
    /\ pc = "reset_obs"
    /\ pc' = "idle"
    /\ events' = Append(events, "fetch")
    /\ \E obs \in {_get_obs(values, sample_rate, samples)} :
           ret' = IF obs.raised THEN Raised("reset")
                  ELSE [call |-> "reset", state |-> "returned",
                        observation |-> obs.value, info |-> _get_info]
    /\ UNCHANGED <<window, sample_rate, samples, step_counter, action, issued,
                   li_cost, si_cost>>

\* lines 106-118: step is entered and the action is dispatched
StepDispatch(a) ==
    /\ pc = "idle"
    /\ step_counter < MaxSteps
    /\ pc' = "sleep"
    /\ ret' = Pending("step")
    /\ action' = a
    /\ issued' = Dispatch(a)
    /\ events' = IF Dispatch(a) # <<>> THEN <<"dispatch">> ELSE <<>>
    /\ li_cost' = 0
    /\ si_cost' = 0
    /\ UNCHANGED <<window, sample_rate, samples, step_counter>>

\* line 121: sleep(10)
StepSleep ==
    /\ pc = "sleep"
    /\ pc' = "cost"
    /\ events' = Append(events, "sleep")
    /\ UNCHANGED <<window, sample_rate, samples, step_counter, action, issued,
                   li_cost, si_cost, ret>>

\* lines 123-125: the two prices are looked up
StepCost(li, si) ==
    /\ pc = "cost"
    /\ pc' = "step_obs"
    /\ li_cost' = li
    /\ si_cost' = si
    /\ events' = Append(events, "cost")
    /\ UNCHANGED <<window, sample_rate, samples, step_counter, action, issued, ret>>

\* lines 127-139: the observation is fetched, the reward computed, the
\* counter advanced and the five values returned
StepObserve(values) ==
    /\ pc = "step_obs"
    /\ pc' = "idle"
    /\ \E obs \in {_get_obs(values, sample_rate, samples)} :
           IF obs.raised
           THEN /\ ret' = Raised("step")
                /\ events' = Append(events, "fetch")
                /\ UNCHANGED step_counter
           ELSE /\ step_counter' = step_counter + 1
                /\ events' = events \o <<"fetch", "reward">>
                /\ ret' = [call |-> "step", state |-> "returned",
                           observation |-> obs.value,
                           reward |-> Reward(obs.value, li_cost, si_cost),
                           terminated |-> Terminated,
                           truncated |-> Truncated(step_counter + 1),
                           info |-> _get_info]
    /\ UNCHANGED <<window, sample_rate, samples, action, issued, li_cost, si_cost>>

Next ==
    \/ ResetCall
    \/ \E values \in Responses : ResetObserve(values)
    \/ \E a \in action_space : StepDispatch(a)
    \/ StepSleep
    \/ \E li \in Prices, si \in Prices : StepCost(li, si)
    \/ \E values \in Responses : StepObserve(values)

Spec == Init /\ [][Next]_vars

\* ----------------------------------------------------------- properties
StepReturned == pc = "idle" /\ ret.call = "step" /\ ret.state = "returned"
CallEnded == pc = "idle" /\ ret.call \in {"reset", "step"}

Large == [target_pod |-> "upf", values |-> "Large"]
Small == [target_pod |-> "upf", values |-> "Small"]

\* C1: a call step(action) issues no scaling request for action 0, exactly
\* one request, for the 'Large' sizing of the 'upf' pod, for action 1, and
\* exactly one, for the 'Small' sizing of the 'upf' pod, for action 2; at no
\* point of a step has it issued more than one request.
C1_OneRequestPerStep ==
    ret.call = "step" =>
        /\ Len(issued) <= 1
        /\ (action = 0 => issued = <<>>)
        /\ (action = 1 => issued = <<Large>>)
        /\ (action = 2 => issued = <<Small>>)

C1_Witness == StepReturned /\ action = 2 /\ issued = <<Small>>

\* C2: the reward is revenue minus the cost of the large and of the small
\* instance, so for the observation a step returned, any other pair of
\* instance costs would have given another reward.
C2_RewardFollowsCosts ==
    StepReturned =>
        \A li \in Prices, si \in Prices :
            <<li, si>> # <<li_cost, si_cost>> =>
                Reward(ret.observation, li, si) # ret.reward

\* C3: whatever number of samples the response resamples to, reset and step
\* do not fail and return window * sample_rate rows of one column.
C3_ObservationShape ==
    CallEnded =>
        /\ ret.state = "returned"
        /\ Len(ret.observation) = window * sample_rate
        /\ \A i \in 1..Len(ret.observation) : Len(ret.observation[i]) = 1

\* C4: every entry of an observation returned by reset or step is >= 0.
C4_ObservationNonNegative ==
    (CallEnded /\ ret.state = "returned") =>
        \A i \in 1..Len(ret.observation) :
            /\ ~IsNaN(ret.observation[i][1])
            /\ ~RNeg(ret.observation[i][1])

\* C5: every call of step that returns, returns terminated = False.
C5_NeverTerminated == StepReturned => ret.terminated = FALSE

C5_Witness == StepReturned /\ step_counter = TruncatePeriod /\ ret.truncated

Count(e) == Cardinality({i \in 1..Len(events) : events[i] = e})
Pos(e) == CHOOSE i \in 1..Len(events) : events[i] = e

\* C6: in a step that returned, the scaling request (if any) was dispatched
\* first, then the wait elapsed, then the observation was fetched, once, then
\* the reward was computed; and the reward is rxtx_value times the sum of the
\* observation that this step returns.
C6_StepOrder ==
    StepReturned =>
        /\ Count("dispatch") = Len(issued)
        /\ Count("sleep") = 1 /\ Count("fetch") = 1 /\ Count("reward") = 1
        /\ (Count("dispatch") = 1 => Pos("dispatch") < Pos("sleep"))
        /\ Pos("sleep") < Pos("fetch")
        /\ Pos("fetch") < Pos("reward")
        /\ ret.reward =
               RScale(RSum(Array([i \in 1..Len(ret.observation) |->
                                     ret.observation[i][1]])), rxtx_value, 1)

C6_Witness ==
    /\ StepReturned
    /\ events = <<"dispatch", "sleep", "cost", "fetch", "reward">>
    /\ ret.observation[1][1] # ret.observation[Len(ret.observation)][1]

====
